---- MODULE Spec2Model ----
(***************************************************************************)
(* Authentication and session core of deep_research (src/auth, src/main).  *)
(*                                                                         *)
(* State: the users table of the credential store, the remote key-value    *)
(* store (rate-limit counters, failure counters, lockout flags, sessions), *)
(* the wall clock, the login requests held between two store calls, the    *)
(* last completed request with its response, and two history variables.    *)
(*                                                                         *)
(* The specifications share this state.                                    *)
(*   Spec     the deployed FastAPI application: /auth/register,            *)
(*            /auth/login, /auth/me and /auth/logout as the handlers are   *)
(*            written.  The login handler awaits the return value of the   *)
(*            plain function get_rate_limiter (router.py:111,              *)
(*            rate_limit.py:153), which raises TypeError before any check  *)
(*            runs, so every login is answered by the generic 500 handler. *)
(*   SpecLockout, SpecGate, SpecSess                                       *)
(*            the statements of the login handler after line 111           *)
(*            (router.py:113-201) run on a RateLimiter instance, each with *)
(*            the requests and clock steps of one concern: failed          *)
(*            attempts and lockout, the rate-limit windows, the session    *)
(*            life cycle.  The rate limiter, the lockout and the sessions  *)
(*            act nowhere else, so these are used for the claims about     *)
(*            those statements that the deployed handler satisfies only    *)
(*            vacuously.                                                   *)
(***************************************************************************)
EXTENDS Integers, Sequences, FiniteSets, TLC

VARIABLES users, kv, now, nextSid, pending, streak, passed, last, csrf, retry

vars == <<users, kv, now, nextSid, pending, streak, passed, last, csrf, retry>>

(***************************************************************************)
(* Bounds of the model.                                                    *)
(***************************************************************************)
MaxUsers == 1
MaxSessions == 2
MaxIpHits == 6
MaxEmailHits == 11
MaxFailed == 11
MaxTicks == 2
MaxPending == 1
MaxTokenSessions == 3
MaxRetries == 3

(***************************************************************************)
(* Program constants.                                                      *)
(***************************************************************************)
LOGIN_ATTEMPTS_PER_MINUTE == 5
LOGIN_ATTEMPTS_PER_5_MIN == 10
FAILED_ATTEMPTS_LOCKOUT == 10
LOCKOUT_DURATION_MINUTES == 15
IP_WINDOW_SECONDS == 60
EMAIL_WINDOW_SECONDS == 300
FAILED_ATTEMPTS_TTL == 3600
LOGIN_LOCK_THRESHOLD == 10
LOGIN_LOCK_MINUTES == 15
SESSION_TTL == 86400
MIN_PASSWORD_LENGTH == 8

(***************************************************************************)
(* Input domains.  An absent optional value (None, NULL, a missing cookie) *)
(* is the empty sequence, a present one the one-element sequence.          *)
(***************************************************************************)
None == <<>>
Some(x) == <<x>>

Emails == {"a@b.com", "A@b.com", "c@d.com"}
Passwords == {"pass123", "password1", "password2"}
IPs == {"10.0.0.1", "10.0.0.2"}
Secrets == {"k1"}
Nonces == {"n1"}
CSRF_SECRET == "k1"

\* SQL LOWER() on the e-mail domain.
Lower(e) == IF e = "A@b.com" THEN "a@b.com" ELSE e

(***************************************************************************)
(* The key-value store: a function from the keys that exist to their value *)
(* and expiry (None: the key carries no expiry).  A key whose expiry has   *)
(* passed is removed when the clock advances.                              *)
(***************************************************************************)
IpKey(ip) == <<"ratelimit:ip", ip>>
EmailKey(email) == <<"ratelimit:email", email>>
FailedKey(email) == <<"failed_attempts", email>>
LockKey(user_id) == <<"account_locked", user_id>>
SessionKey(sid) == <<"session", sid>>

Exists(s, k) == k \in DOMAIN s

redis_incr(s, k) ==
    IF Exists(s, k)
    THEN [s EXCEPT ![k].val = @ + 1]
    ELSE [x \in DOMAIN s \cup {k} |-> IF x = k THEN [val |-> 1, exp |-> None] ELSE s[x]]

redis_expire(s, k, ttl, t) ==
    IF Exists(s, k) THEN [s EXCEPT ![k].exp = Some(t + ttl)] ELSE s

redis_setex(s, k, ttl, v, t) ==
    [x \in DOMAIN s \cup {k} |-> IF x = k THEN [val |-> v, exp |-> Some(t + ttl)] ELSE s[x]]

redis_delete(s, k) == [x \in DOMAIN s \ {k} |-> s[x]]

redis_get(s, k) == IF Exists(s, k) THEN Some(s[k].val) ELSE None

Expired(s, k, t) == s[k].exp # None /\ s[k].exp[1] <= t

Purge(s, t) == [x \in {k \in DOMAIN s : ~Expired(s, k, t)} |-> s[x]]

(***************************************************************************)
(* Password hasher (security.py): the hash names the algorithm and is      *)
(* matched by exactly the password it was made from.                       *)
(***************************************************************************)
hash_password(p) == <<"argon2id", p>>

verify_password(p, h) == h[1] = "argon2id" /\ h[2] = p

(***************************************************************************)
(* CSRF token service (csrf.py).  A token is its "."-separated parts; the  *)
(* signature is the keyed hash of "<session id>:<nonce>".                  *)
(***************************************************************************)
\* Variant: the hash does not depend on the key.
hmac_sha256_unkeyed(secret, message) == <<"hmac-sha256", "", message>>

hmac_sha256(secret, message) == <<"hmac-sha256", secret, message>>

csrf_message(sid, nonce) == <<sid, ":", nonce>>

generate_csrf_token(sid, secret, nonce) ==
    <<nonce, hmac_sha256(secret, csrf_message(sid, nonce))>>

\* token.split(".", 1): the part before the first separator is the nonce, all
\* that follows it is the signature; a hexdigest holds no separator.
verify_csrf_token(token, sid, secret) ==
    IF Len(token) < 2
    THEN FALSE
    ELSE Tail(token) = <<hmac_sha256(secret, csrf_message(sid, token[1]))>>

(***************************************************************************)
(* Credential store (queries.py).  The users table is a sequence; a row's  *)
(* id is its position.                                                     *)
(***************************************************************************)
UserIds(u) == 1..Len(u)

\* Column defaults of a new row (schema of the users table).
NewUserDefaults ==
    [is_active |-> TRUE, failed_login_attempts |-> 0, locked_until |-> None]

create_user(u, email, password_hash) ==
    Append(u, [id |-> Len(u) + 1,
               email |-> Lower(email),
               password_hash |-> password_hash,
               is_active |-> NewUserDefaults.is_active,
               failed_login_attempts |-> NewUserDefaults.failed_login_attempts,
               locked_until |-> NewUserDefaults.locked_until])

\* None, or Some(row) for the first row whose e-mail matches ignoring case.
get_user_by_email(u, email) ==
    LET hits == {i \in UserIds(u) : Lower(u[i].email) = Lower(email)}
    IN  IF hits = {} THEN None
        ELSE Some(u[CHOOSE i \in hits : \A j \in hits : i <= j])

get_user_by_id(u, user_id) ==
    IF user_id \in UserIds(u) THEN Some(u[user_id]) ELSE None

\* Variant: the durable columns are left as they are.
reset_failed_login_attempts_kept(u, user_id) == u

reset_failed_login_attempts(u, user_id) ==
    IF user_id \in UserIds(u)
    THEN [u EXCEPT ![user_id].failed_login_attempts = 0,
                   ![user_id].locked_until = None]
    ELSE u

db_lock_account(u, user_id, locked_until) ==
    IF user_id \in UserIds(u)
    THEN [u EXCEPT ![user_id].locked_until = Some(locked_until)]
    ELSE u

deactivate_user(u, user_id) ==
    IF user_id \in UserIds(u) THEN [u EXCEPT ![user_id].is_active = FALSE] ELSE u

activate_user(u, user_id) ==
    IF user_id \in UserIds(u) THEN [u EXCEPT ![user_id].is_active = TRUE] ELSE u

(***************************************************************************)
(* Responses.  A handler's outcome is the response, the stores it leaves   *)
(* behind, what the response carries, and the stage at which the handler   *)
(* stopped.                                                                *)
(***************************************************************************)
Outcome(stage, status, detail, s, u) ==
    [stage |-> stage, status |-> status, detail |-> detail, kv |-> s, users |-> u,
     session_id |-> None, csrf_token |-> None, attempts |-> 0, user_id |-> None,
     refreshed |-> FALSE]

\* main.py generic_exception_handler: any uncaught exception.
generic_exception_handler(stage, s, u) ==
    Outcome(stage, 500, "Internal server error", s, u)

(***************************************************************************)
(* A store call either completes or raises.  Site names the one call of a  *)
(* request that raises ("none": every call completes); a call wrapped by   *)
(* redis_retry raises only when all of its attempts failed.  A call that   *)
(* raises has not been applied.                                            *)
(***************************************************************************)
LoginSites == {"none", "ip_incr", "ip_expire", "email_incr", "email_expire",
               "locked_get", "failed_incr", "failed_expire", "lock_setex",
               "failed_delete", "session_setex"}
SessionSites == {"none", "session_get", "session_expire", "session_delete"}

(***************************************************************************)
(* Retry policy (redis_utils.py).  Delays are in milliseconds.             *)
(***************************************************************************)
DEFAULT_MAX_RETRIES == 3
DEFAULT_INITIAL_DELAY == 500
DEFAULT_MAX_DELAY == 10000
DEFAULT_EXPONENTIAL_BASE == 2

Min(a, b) == IF a <= b THEN a ELSE b

\* The state of exponential_backoff_retry before its first try.
retry_enter(max_retries, initial_delay, max_delay, exponential_base) ==
    [phase |-> "loop", max_retries |-> max_retries,
     initial_delay |-> initial_delay, max_delay |-> max_delay,
     exponential_base |-> exponential_base,
     attempt |-> 0, delay |-> initial_delay, calls |-> 0, sleeps |-> <<>>]

\* redis_utils.py:59-61: the call returns.
retry_returned(r) == [r EXCEPT !.phase = "returned", !.calls = @ + 1]

\* redis_utils.py:62-77: the call raises; the loop sleeps and goes on, or
\* ends and RedisConnectionError is raised.
retry_failed(r) ==
    IF r.attempt < r.max_retries
    THEN [r EXCEPT !.calls = @ + 1,
                   !.sleeps = Append(@, r.delay),
                   !.delay = Min(r.delay * r.exponential_base, r.max_delay),
                   !.attempt = @ + 1]
    ELSE [r EXCEPT !.calls = @ + 1, !.attempt = @ + 1, !.phase = "raised"]

\* The session manager's four store calls run under
\* @redis_retry(max_retries=3, ...) (sessions.py:33, 69, 99, 118); the rate
\* limiter calls self.redis directly (rate_limit.py).
SESSION_MAX_RETRIES == 3
RetriedSites == {"session_setex", "session_get", "session_delete", "session_expire"}

\* Whether a store call that fails faults times in a row before it succeeds
\* raises to the code that made it: a retried call after max_retries + 1
\* failed tries, a direct call at its first failure.
Raises(site, faults) ==
    IF site \in RetriedSites THEN faults > SESSION_MAX_RETRIES ELSE faults >= 1

\* The site that fails for the caller, if any.
FailingSite(site, faults) == IF Raises(site, faults) THEN site ELSE "none"

Ret(s, ret) == [kv |-> s, raised |-> FALSE, ret |-> ret]
Raise(s, ret) == [kv |-> s, raised |-> TRUE, ret |-> ret]

(***************************************************************************)
(* Rate limiter and lockout tracker (rate_limit.py).  Its store calls are  *)
(* made on the client directly, without the retry wrapper.                 *)
(***************************************************************************)
\* Variant: the IP gate admits one request more than its limit.
check_ip_rate_limit_lax(s, ip, t, f) ==
    LET key == IpKey(ip)
        s1 == redis_incr(s, key)
        count == s1[key].val
    IN  IF f = "ip_incr" THEN Raise(s, FALSE)
        ELSE IF count = 1 /\ f = "ip_expire" THEN Raise(s1, FALSE)
        ELSE Ret(IF count = 1 THEN redis_expire(s1, key, IP_WINDOW_SECONDS, t) ELSE s1,
                 count > LOGIN_ATTEMPTS_PER_MINUTE + 1)

check_ip_rate_limit(s, ip, t, f) ==
    LET key == IpKey(ip)
        s1 == redis_incr(s, key)
        count == s1[key].val
    IN  IF f = "ip_incr" THEN Raise(s, FALSE)
        ELSE IF count = 1 /\ f = "ip_expire" THEN Raise(s1, FALSE)
        ELSE Ret(IF count = 1 THEN redis_expire(s1, key, IP_WINDOW_SECONDS, t) ELSE s1,
                 count > LOGIN_ATTEMPTS_PER_MINUTE)

check_email_rate_limit(s, email, t, f) ==
    LET key == EmailKey(email)
        s1 == redis_incr(s, key)
        count == s1[key].val
    IN  IF f = "email_incr" THEN Raise(s, FALSE)
        ELSE IF count = 1 /\ f = "email_expire" THEN Raise(s1, FALSE)
        ELSE Ret(IF count = 1 THEN redis_expire(s1, key, EMAIL_WINDOW_SECONDS, t) ELSE s1,
                 count > LOGIN_ATTEMPTS_PER_5_MIN)

increment_failed_attempts(s, email, t, f) ==
    LET key == FailedKey(email)
        s1 == redis_incr(s, key)
    IN  IF f = "failed_incr" THEN Raise(s, 0)
        ELSE IF f = "failed_expire" THEN Raise(s1, 0)
        ELSE Ret(redis_expire(s1, key, FAILED_ATTEMPTS_TTL, t), s1[key].val)

\* Variant: the e-mail's rate-limit counter is deleted with the failure counter.
reset_failed_attempts_with_window(s, email, f) ==
    IF f = "failed_delete" THEN Raise(s, FALSE)
    ELSE Ret(redis_delete(redis_delete(s, FailedKey(email)), EmailKey(email)), FALSE)

reset_failed_attempts(s, email, f) ==
    IF f = "failed_delete" THEN Raise(s, FALSE)
    ELSE Ret(redis_delete(s, FailedKey(email)), FALSE)

\* Variant: the KV flag is not written.
lock_account_unwritten(s, user_id, t, f) ==
    IF f = "lock_setex" THEN Raise(s, FALSE) ELSE Ret(s, FALSE)

\* Variant: the KV flag is kept for the failure counter's lifetime.
lock_account_outlasting(s, user_id, t, f) ==
    IF f = "lock_setex" THEN Raise(s, FALSE)
    ELSE Ret(redis_setex(s, LockKey(user_id), FAILED_ATTEMPTS_TTL,
                         t + LOCKOUT_DURATION_MINUTES * 60, t), FALSE)

lock_account(s, user_id, t, f) ==
    IF f = "lock_setex" THEN Raise(s, FALSE)
    ELSE Ret(redis_setex(s, LockKey(user_id), LOCKOUT_DURATION_MINUTES * 60,
                         t + LOCKOUT_DURATION_MINUTES * 60, t), FALSE)

is_account_locked(s, user_id, f) ==
    IF f = "locked_get" THEN Raise(s, FALSE)
    ELSE Ret(s, redis_get(s, LockKey(user_id)) # None)

unlock_account(s, user_id) == redis_delete(s, LockKey(user_id))

(***************************************************************************)
(* Session manager (sessions.py).  Every store call goes through           *)
(* redis_retry; create and delete re-raise, get and refresh swallow.       *)
(***************************************************************************)
create_session(s, user_id, sid, t, f) ==
    IF f = "session_setex" THEN Raise(s, None)
    ELSE Ret(redis_setex(s, SessionKey(sid), SESSION_TTL,
                         [user_id |-> user_id, created_at |-> t], t), Some(sid))

get_session(s, sid, f) ==
    IF f = "session_get" THEN Ret(s, None)
    ELSE Ret(s, redis_get(s, SessionKey(sid)))

\* Variant: deleting a session that is absent is an error.
delete_session_strict(s, sid, f) ==
    IF f = "session_delete" \/ ~Exists(s, SessionKey(sid)) THEN Raise(s, FALSE)
    ELSE Ret(redis_delete(s, SessionKey(sid)), FALSE)

\* Variant: the delete is reported done and the key is left in the store.
delete_session_kept(s, sid, f) ==
    IF f = "session_delete" THEN Raise(s, FALSE) ELSE Ret(s, FALSE)

delete_session(s, sid, f) ==
    IF f = "session_delete" THEN Raise(s, FALSE)
    ELSE Ret(redis_delete(s, SessionKey(sid)), FALSE)

\* Variant: the session's expiry is reported reset and left as it was.
refresh_session_idle(s, sid, t, f) ==
    IF f = "session_expire" THEN Ret(s, FALSE) ELSE Ret(s, Exists(s, SessionKey(sid)))

\* Variant: the session is written anew, created at the time of the refresh.
refresh_session_rewritten(s, sid, t, f) ==
    IF f = "session_expire" \/ ~Exists(s, SessionKey(sid)) THEN Ret(s, FALSE)
    ELSE Ret(redis_setex(s, SessionKey(sid), SESSION_TTL,
                         [s[SessionKey(sid)].val EXCEPT !.created_at = t], t), TRUE)

\* Variant: a session that is gone is stored again.
refresh_session_revived(s, sid, t, f) ==
    IF f = "session_expire" THEN Ret(s, FALSE)
    ELSE Ret(redis_setex(s, SessionKey(sid), SESSION_TTL,
                         IF Exists(s, SessionKey(sid)) THEN s[SessionKey(sid)].val
                         ELSE [user_id |-> 1, created_at |-> t], t), TRUE)

refresh_session(s, sid, t, f) ==
    IF f = "session_expire" THEN Ret(s, FALSE)
    ELSE Ret(redis_expire(s, SessionKey(sid), SESSION_TTL, t), Exists(s, SessionKey(sid)))

(***************************************************************************)
(* Request handlers (router.py, dependencies.py).                          *)
(***************************************************************************)
\* The unique constraint on users.email (schema of the users table): the
\* INSERT of create_user raises when a row holds the lowercased address.
users_email_key(u, email) == \E i \in UserIds(u) : u[i].email = Lower(email)

\* router.py:68-84: the INSERT and the answer; an exception of the INSERT is
\* answered 500, Registration failed.
register_insert(s, u, email, password) ==
    IF users_email_key(u, email)
    THEN Outcome("insert", 500, "Registration failed", s, u)
    ELSE LET u1 == create_user(u, email, hash_password(password))
         IN  [Outcome("created", 200, "User registered successfully", s, u1)
                 EXCEPT !.user_id = Some(Len(u1))]

\* router.py:59-66: the checks that precede the INSERT; None when both pass.
register_checks(s, u, email, password) ==
    IF Len(password) < MIN_PASSWORD_LENGTH
    THEN Some(Outcome("password_length", 400,
                      "Password must be at least 8 characters", s, u))
    ELSE IF get_user_by_email(u, email) # None
    THEN Some(Outcome("existing", 400, "Email already registered", s, u))
    ELSE None

register(s, u, email, password) ==
    IF register_checks(s, u, email, password) # None
    THEN register_checks(s, u, email, password)[1]
    ELSE register_insert(s, u, email, password)

\* router.py:111 awaits get_rate_limiter(redis).  get_rate_limiter
\* (rate_limit.py:153-166) is a plain function that returns a RateLimiter, an
\* object without __await__, so the await raises TypeError.
await_get_rate_limiter == "TypeError"

\* POST /auth/login as deployed (router.py:87-201): the exception of line 111
\* reaches the generic handler and no statement after it runs.
login(s, u, t, email, password, ip, f, sid, nonce) ==
    IF await_get_rate_limiter = "TypeError"
    THEN generic_exception_handler("await_rate_limiter", s, u)
    ELSE Outcome("success", 200, "Logged in successfully", s, u)

\* router.py:138-152: the password did not verify.
login_wrong_password(s, u, t, email, user, f) ==
    LET r == increment_failed_attempts(s, email, t, f)
    IN  IF r.raised THEN generic_exception_handler("password", r.kv, u)
        ELSE IF r.ret >= LOGIN_LOCK_THRESHOLD
        THEN LET u1 == db_lock_account(u, user.id, t + LOGIN_LOCK_MINUTES * 60)
                 l == lock_account(r.kv, user.id, t, f)
             IN  IF l.raised
                 THEN [generic_exception_handler("password", l.kv, u1)
                          EXCEPT !.attempts = r.ret]
                 ELSE [Outcome("password", 403,
                               "Account locked due to too many failed attempts",
                               l.kv, u1) EXCEPT !.attempts = r.ret]
        ELSE [Outcome("password", 401, "Invalid email or password", r.kv, u)
                 EXCEPT !.attempts = r.ret]

\* router.py:154-201: the password verified.
login_success(s, u, t, email, user, f, sid, nonce) ==
    LET r == reset_failed_attempts(s, email, f)
    IN  IF r.raised THEN generic_exception_handler("success", r.kv, u)
        ELSE LET u1 == reset_failed_login_attempts(u, user.id)
                 c == create_session(r.kv, user.id, sid, t, f)
             IN  IF c.raised THEN generic_exception_handler("success", c.kv, u1)
                 \* router.py:163-164: os.getenv returns None when CSRF_SECRET
                 \* is not set and generate_csrf_token raises on secret.encode().
                 ELSE IF f = "csrf_mint"
                 THEN generic_exception_handler("success", c.kv, u1)
                 ELSE [Outcome("success", 200, "Logged in successfully", c.kv, u1)
                          EXCEPT !.session_id = c.ret,
                                 !.csrf_token =
                                     Some(generate_csrf_token(c.ret[1], CSRF_SECRET, nonce)),
                                 !.user_id = Some(user.id)]

\* Variant: neither lock record is consulted.
login_user_checks_unlocked(s, u, t, email, password, f, sid, nonce) ==
    LET found == get_user_by_email(u, email)
    IN  IF found = None
        THEN Outcome("lookup", 401, "Invalid email or password", s, u)
        ELSE IF ~found[1].is_active
        THEN Outcome("active", 403, "User account is inactive", s, u)
        ELSE IF ~verify_password(password, found[1].password_hash)
        THEN login_wrong_password(s, u, t, email, found[1], f)
        ELSE login_success(s, u, t, email, found[1], f, sid, nonce)

\* Variant: the active flag is not read before the password is verified.
login_user_checks_active_unread(s, u, t, email, password, f, sid, nonce) ==
    LET found == get_user_by_email(u, email)
    IN  IF found = None
        THEN Outcome("lookup", 401, "Invalid email or password", s, u)
        ELSE
        LET user == found[1]
            k == is_account_locked(s, user.id, f)
        IN  IF k.raised THEN generic_exception_handler("kv_lock", k.kv, u)
            ELSE IF k.ret
            THEN Outcome("kv_lock", 403,
                         "Account locked due to too many failed attempts", s, u)
            ELSE IF user.locked_until # None /\ user.locked_until[1] > t
            THEN Outcome("db_lock", 403, "Account locked", s, u)
            ELSE IF ~verify_password(password, user.password_hash)
            THEN login_wrong_password(s, u, t, email, user, f)
            ELSE login_success(s, u, t, email, user, f, sid, nonce)

\* Variant: the durable locked_until is not consulted.
login_user_checks_flag_only(s, u, t, email, password, f, sid, nonce) ==
    LET found == get_user_by_email(u, email)
    IN  IF found = None
        THEN Outcome("lookup", 401, "Invalid email or password", s, u)
        ELSE
        LET user == found[1]
            k == is_account_locked(s, user.id, f)
        IN  IF k.raised THEN generic_exception_handler("kv_lock", k.kv, u)
            ELSE IF k.ret
            THEN Outcome("kv_lock", 403,
                         "Account locked due to too many failed attempts", s, u)
            ELSE IF ~user.is_active
            THEN Outcome("active", 403, "User account is inactive", s, u)
            ELSE IF ~verify_password(password, user.password_hash)
            THEN login_wrong_password(s, u, t, email, user, f)
            ELSE login_success(s, u, t, email, user, f, sid, nonce)

\* router.py:120-201: from the user lookup on.
login_user_checks(s, u, t, email, password, f, sid, nonce) ==
    LET found == get_user_by_email(u, email)
    IN  IF found = None
        THEN Outcome("lookup", 401, "Invalid email or password", s, u)
        ELSE
        LET user == found[1]
            k == is_account_locked(s, user.id, f)
        IN  IF k.raised THEN generic_exception_handler("kv_lock", k.kv, u)
            ELSE IF k.ret
            THEN Outcome("kv_lock", 403,
                         "Account locked due to too many failed attempts", s, u)
            ELSE IF user.locked_until # None /\ user.locked_until[1] > t
            THEN Outcome("db_lock", 403, "Account locked", s, u)
            ELSE IF ~user.is_active
            THEN Outcome("active", 403, "User account is inactive", s, u)
            ELSE IF ~verify_password(password, user.password_hash)
            THEN login_wrong_password(s, u, t, email, user, f)
            ELSE login_success(s, u, t, email, user, f, sid, nonce)

\* router.py:116-201: from the e-mail gate on.
login_after_ip_gate(s, u, t, email, password, f, sid, nonce) ==
    LET b == check_email_rate_limit(s, email, t, f)
    IN  IF b.raised THEN generic_exception_handler("email_gate", b.kv, u)
        ELSE IF b.ret
        THEN Outcome("email_gate", 429, "Too many login attempts for this email",
                     b.kv, u)
        ELSE login_user_checks(b.kv, u, t, email, password, f, sid, nonce)

\* router.py:113-201: the statements of login after line 111.
login_body(s, u, t, email, password, ip, f, sid, nonce) ==
    LET a == check_ip_rate_limit(s, ip, t, f)
    IN  IF a.raised THEN generic_exception_handler("ip_gate", a.kv, u)
        ELSE IF a.ret
        THEN Outcome("ip_gate", 429, "Too many login attempts from this IP", a.kv, u)
        ELSE login_after_ip_gate(a.kv, u, t, email, password, f, sid, nonce)

\* dependencies.py:37-52: get_current_user once get_session has returned a
\* session that carries user_id.
get_current_user_with(s, u, t, cookie, user_id, f) ==
    LET r == refresh_session(s, cookie[1], t, f)
        found == get_user_by_id(u, user_id)
    IN  IF user_id = 0 THEN Outcome("payload", 401, "Invalid session", s, u)
        ELSE IF found = None
        THEN [Outcome("user", 401, "User not found", r.kv, u)
                 EXCEPT !.refreshed = r.ret]
        ELSE IF ~found[1].is_active
        THEN [Outcome("active", 403, "User account is inactive", r.kv, u)
                 EXCEPT !.refreshed = r.ret]
        ELSE [Outcome("current_user", 200, "CurrentUser", r.kv, u)
                 EXCEPT !.user_id = Some(user_id), !.refreshed = r.ret]

\* dependencies.py:24-52.  Status 200 stands for the CurrentUser returned.
get_current_user(s, u, t, cookie, f) ==
    IF cookie = None THEN Outcome("cookie", 401, "Not authenticated", s, u)
    ELSE
    LET g == get_session(s, cookie[1], f)
    IN  IF g.ret = None THEN Outcome("session", 401, "Session expired", s, u)
        ELSE get_current_user_with(s, u, t, cookie, g.ret[1].user_id, f)

\* router.py:253-262: get_me once its dependency has answered cu.
get_me_from(cu) ==
    IF cu.status # 200 THEN cu
    ELSE IF get_user_by_id(cu.users, cu.user_id[1]) = None
    THEN Outcome("me", 404, "User not found", cu.kv, cu.users)
    ELSE [cu EXCEPT !.stage = "me", !.detail = "me"]

\* GET /auth/me, router.py:238-262.
get_me(s, u, t, cookie, f) == get_me_from(get_current_user(s, u, t, cookie, f))

\* router.py:218-235: logout once its dependency has answered cu.
logout_from(cu, cookie, f) ==
    IF cu.status # 200 THEN cu
    ELSE LET d == delete_session(cu.kv, cookie[1], f)
         IN  IF d.raised
             THEN generic_exception_handler("logout", d.kv, cu.users)
             ELSE [cu EXCEPT !.stage = "logout",
                             !.detail = "Logged out successfully", !.kv = d.kv]

\* POST /auth/logout, router.py:204-235.
logout(s, u, t, cookie, f) ==
    logout_from(get_current_user(s, u, t, cookie, f), cookie, f)

(***************************************************************************)
(* CSRF gate (main.py:73-98).  It stands before every handler.  Of the     *)
(* handlers above only logout is behind it: /auth/me is read with GET,     *)
(* /auth/login and /auth/register are exempt.                              *)
(***************************************************************************)
CSRF_EXEMPT_PATHS == {"/auth/login", "/auth/register", "/health", "/api/webhooks"}

CSRF_METHODS == {"POST", "PUT", "PATCH", "DELETE"}

\* Variant: a token that is present is taken as valid.
csrf_middleware_unverified(method, path, cookie, cookie_token, header_token, secret) ==
    IF method \in CSRF_METHODS /\ cookie # None /\ path \notin CSRF_EXEMPT_PATHS
          /\ (header_token = None \/ cookie_token = None)
    THEN Some([status |-> 403, detail |-> "CSRF token missing"])
    ELSE None

\* None when the request is passed on to call_next, Some(response) when the
\* gate answers it.  A token or cookie that is absent or empty is None.
csrf_middleware(method, path, cookie, cookie_token, header_token, secret) ==
    IF method \in CSRF_METHODS /\ cookie # None /\ path \notin CSRF_EXEMPT_PATHS
    THEN IF header_token = None \/ cookie_token = None
         THEN Some([status |-> 403, detail |-> "CSRF token missing"])
         ELSE IF ~verify_csrf_token(header_token[1], cookie[1], secret)
         THEN Some([status |-> 403, detail |-> "CSRF validation failed"])
         ELSE None
    ELSE None

\* POST /auth/logout as the application answers it: the gate, then the handler.
post_logout(s, u, t, cookie, cookie_token, header_token, f) ==
    LET g == csrf_middleware("POST", "/auth/logout", cookie, cookie_token,
                             header_token, CSRF_SECRET)
    IN  IF g # None THEN Outcome("csrf", g[1].status, g[1].detail, s, u)
        ELSE logout(s, u, t, cookie, f)

\* The paths the application routes that a request of this model names
\* (router.py:204, router.py:238, main.py:154).
RoutedPaths == {"/auth/logout", "/auth/me", "/health"}

\* call_next(request): the route's handler answers; a routed path asked with
\* another method is 405, a path without a route 404.
call_next(method, path, s, u, t, cookie) ==
    IF method = "POST" /\ path = "/auth/logout" THEN logout(s, u, t, cookie, "none")
    ELSE IF method = "GET" /\ path = "/auth/me" THEN get_me(s, u, t, cookie, "none")
    ELSE IF method = "GET" /\ path = "/health"
    THEN Outcome("health", 200, "healthy", s, u)
    ELSE IF path \in RoutedPaths
    THEN Outcome("router", 405, "Method Not Allowed", s, u)
    ELSE Outcome("router", 404, "Not Found", s, u)

\* A request as the application answers it: the gate, then the route.
http_request(method, path, s, u, t, cookie, cookie_token, header_token) ==
    LET g == csrf_middleware(method, path, cookie, cookie_token, header_token,
                             CSRF_SECRET)
    IN  IF g # None THEN Outcome("csrf", g[1].status, g[1].detail, s, u)
        ELSE call_next(method, path, s, u, t, cookie)

(***************************************************************************)
(* State machine.  An action is one request answered by its handler, one   *)
(* operation of the credential store, or the clock advancing.  last holds  *)
(* the request just answered and its response.  streak is a history        *)
(* variable: per address, the wrong-password attempts since the most       *)
(* recent successful login, lockout or expiry of the failure counter.      *)
(***************************************************************************)
Cookies == {None} \cup {Some(i) : i \in 1..MaxSessions}

Request(op, email, password, ip, cookie) ==
    [op |-> op, email |-> email, password |-> password, ip |-> ip,
     cookie |-> cookie,
     method |-> "", path |-> "", header_token |-> None, cookie_token |-> None,
     site |-> "none", faults |-> 0, resumed |-> FALSE,
     stage |-> "", status |-> 0, detail |-> "", session_id |-> None,
     csrf_token |-> None, attempts |-> 0, user_id |-> None, refreshed |-> FALSE]

\* The stores and the response after a handler has answered a request.
Answer(req, out) ==
    /\ users' = out.users
    /\ kv' = out.kv
    /\ last' = [req EXCEPT !.stage = out.stage, !.status = out.status,
                           !.detail = out.detail,
                           !.session_id = out.session_id,
                           !.csrf_token = out.csrf_token,
                           !.attempts = out.attempts, !.user_id = out.user_id,
                           !.refreshed = out.refreshed]

Hits(s, k) == IF Exists(s, k) THEN s[k].val ELSE 0

\* A lock record (durable locked_until or the KV flag) is written between the
\* stores (u, s) and (u1, s1).
LockWritten(u, s, u1, s1) ==
    \/ \E i \in UserIds(u) :
          u1[i].locked_until # None /\ u1[i].locked_until # u[i].locked_until
    \/ \E i \in UserIds(u1) :
          /\ Exists(s1, LockKey(i))
          /\ ~Exists(s, LockKey(i)) \/ s1[LockKey(i)] # s[LockKey(i)]

\* The rate-limit counters, and the count of requests that passed the gate of
\* each during the counter's present window (history of the run).
GateKeys == {IpKey(ip) : ip \in IPs} \cup {EmailKey(e) : e \in Emails}

\* A request that entered login at gate from ("ip": the whole body, "email":
\* resumed past the IP gate) and was answered at stage has passed the gates
\* before that stage.
Passing(p, stage, ip, email, from) ==
    [k \in GateKeys |->
        IF k = IpKey(ip) /\ from = "ip" /\ stage # "ip_gate" THEN p[k] + 1
        ELSE IF k = EmailKey(email) /\ stage \notin {"ip_gate", "email_gate"}
        THEN p[k] + 1
        ELSE p[k]]

Init ==
    /\ users = <<>>
    /\ kv = <<>>
    /\ now = 0
    /\ nextSid = 1
    /\ pending = {}
    /\ streak = [e \in Emails |-> 0]
    /\ passed = [k \in GateKeys |-> 0]
    /\ last = Request("init", "", "", "", None)
    /\ csrf = [step |-> "init"]
    /\ retry = [phase |-> "init"]

Register(emails, passwords) ==
    \E email \in emails, password \in passwords :
        \E out \in {register(kv, users, email, password)} :
            /\ Len(out.users) <= MaxUsers
            /\ Answer(Request("register", email, password, "", None), out)
            /\ UNCHANGED <<csrf, retry, now, nextSid, pending, streak, passed>>

Login ==
    \E email \in Emails, password \in Passwords, ip \in IPs, nonce \in Nonces :
        \E out \in {login(kv, users, now, email, password, ip, "none", nextSid, nonce)} :
            /\ out.session_id # None => nextSid <= MaxSessions
            /\ Answer(Request("login", email, password, ip, None), out)
            /\ nextSid' = IF out.session_id # None THEN nextSid + 1 ELSE nextSid
            /\ UNCHANGED <<csrf, retry, now, pending, streak, passed>>

\* The answer out to the login request req, with the counts kept of it.
LoginAnswer(req, out) ==
    /\ Exists(out.kv, SessionKey(nextSid)) => nextSid <= MaxSessions
    /\ Answer(req, out)
    /\ nextSid' = IF Exists(out.kv, SessionKey(nextSid)) THEN nextSid + 1 ELSE nextSid
    /\ passed' = Passing(passed, out.stage, req.ip, req.email, "ip")
    /\ streak' =
          IF out.status = 200 THEN [streak EXCEPT ![req.email] = 0]
          ELSE IF \/ out.stage # "password"
                  \/ Hits(out.kv, FailedKey(req.email)) = Hits(kv, FailedKey(req.email))
          THEN streak
          ELSE IF LockWritten(users, kv, out.users, out.kv)
          THEN [streak EXCEPT ![req.email] = 0]
          ELSE [streak EXCEPT ![req.email] = @ + 1]

LoginBody(emails, passwords, ips, sites) ==
    \E email \in emails, password \in passwords, ip \in ips, nonce \in Nonces,
       f \in sites :
        /\ Hits(kv, IpKey(ip)) < MaxIpHits
        /\ Hits(kv, EmailKey(email)) < MaxEmailHits
        /\ Hits(kv, FailedKey(email)) < MaxFailed
        /\ \E out \in {login_body(kv, users, now, email, password, ip, f, nextSid, nonce)} :
               LoginAnswer(Request("login", email, password, ip, None), out)
        /\ UNCHANGED <<csrf, retry, now, pending>>

Me(sites) ==
    \E cookie \in Cookies, f \in sites :
        /\ \E out \in {get_me(kv, users, now, cookie, f)} :
               Answer(Request("me", "", "", "", cookie), out)
        /\ UNCHANGED <<csrf, retry, now, nextSid, pending, streak, passed>>

\* The CSRF tokens a client sends with a session cookie, in the header and in
\* the csrf_token cookie alike: none, or the one login issued for the session.
ClientTokens(cookie) ==
    IF cookie = None THEN {None}
    ELSE {None, Some(generate_csrf_token(cookie[1], CSRF_SECRET, "n1"))}

Logout(sites) ==
    \E cookie \in Cookies, f \in sites :
      \E token \in ClientTokens(cookie) :
        /\ \E out \in {post_logout(kv, users, now, cookie, token, token, f)} :
               Answer([Request("logout", "", "", "", cookie)
                          EXCEPT !.method = "POST", !.path = "/auth/logout",
                                 !.header_token = token, !.cookie_token = token],
                      out)
        /\ UNCHANGED <<csrf, retry, now, nextSid, pending, streak, passed>>

Deactivate ==
    \E user_id \in UserIds(users) :
        /\ users[user_id].is_active
        /\ users' = deactivate_user(users, user_id)
        /\ last' = Request("deactivate_user", "", "", "", None)
        /\ UNCHANGED <<csrf, retry, kv, now, nextSid, pending, streak, passed>>

Activate ==
    \E user_id \in UserIds(users) :
        /\ ~users[user_id].is_active
        /\ users' = activate_user(users, user_id)
        /\ last' = Request("activate_user", "", "", "", None)
        /\ UNCHANGED <<csrf, retry, kv, now, nextSid, pending, streak, passed>>

(***************************************************************************)
(* Concurrent logins.  A request's gate decision depends on the value its  *)
(* own incr returned, so requests interleave observably only where one has *)
(* created a counter (incr returned 1) and has not yet set the expiry      *)
(* (rate_limit.py:29-33, 52-56).  Such a request is held in pending while  *)
(* other requests and the clock proceed; it then resumes with the expire   *)
(* call and the rest of the handler, or is aborted (the client went away or*)
(* the worker stopped) and runs no further statement.                      *)
(***************************************************************************)
GateSuspend(emails, passwords, ips) ==
    \E email \in emails, password \in passwords, ip \in ips :
        /\ Cardinality(pending) < MaxPending
        /\ \/ /\ ~Exists(kv, IpKey(ip))
              /\ kv' = redis_incr(kv, IpKey(ip))
              /\ pending' = pending \cup
                     {[gate |-> "ip", email |-> email, password |-> password, ip |-> ip]}
              /\ UNCHANGED passed
           \/ /\ Hits(kv, IpKey(ip)) \in 1..(MaxIpHits - 1)
              /\ ~Exists(kv, EmailKey(email))
              /\ \E a \in {check_ip_rate_limit(kv, ip, now, "none")} :
                     /\ ~a.ret
                     /\ kv' = redis_incr(a.kv, EmailKey(email))
              /\ pending' = pending \cup
                     {[gate |-> "email", email |-> email, password |-> password, ip |-> ip]}
              /\ passed' = [passed EXCEPT ![IpKey(ip)] = @ + 1]
        /\ last' = Request("suspended", email, password, ip, None)
        /\ UNCHANGED <<csrf, retry, users, now, nextSid, streak>>

GateResume ==
    \E p \in pending, nonce \in Nonces :
        /\ Hits(kv, EmailKey(p.email)) < MaxEmailHits
        /\ \E out \in {IF p.gate = "ip"
                        THEN login_after_ip_gate(
                                 redis_expire(kv, IpKey(p.ip), IP_WINDOW_SECONDS, now),
                                 users, now, p.email, p.password, "none", nextSid, nonce)
                        ELSE login_user_checks(
                                 redis_expire(kv, EmailKey(p.email), EMAIL_WINDOW_SECONDS, now),
                                 users, now, p.email, p.password, "none", nextSid, nonce)} :
               /\ out.session_id # None => nextSid <= MaxSessions
               /\ Answer(Request("login", p.email, p.password, p.ip, None), out)
               /\ nextSid' = IF out.session_id # None THEN nextSid + 1 ELSE nextSid
               /\ passed' = Passing(passed, out.stage, p.ip, p.email, p.gate)
        /\ pending' = pending \ {p}
        /\ UNCHANGED <<csrf, retry, now, streak>>

GateAbort ==
    \E p \in pending :
        /\ pending' = pending \ {p}
        /\ last' = Request("aborted", p.email, p.password, p.ip, None)
        /\ UNCHANGED <<csrf, retry, users, kv, now, nextSid, streak, passed>>

(***************************************************************************)
(* Concurrent authenticated requests.  get_current_user reads the session  *)
(* (dependencies.py:32) and refreshes it in a later store call             *)
(* (dependencies.py:44); a logout deletes it in a third (router.py:225).   *)
(* A request whose get_session has returned a session is held in pending   *)
(* while other requests and the clock proceed, and then resumes with the   *)
(* statements after get_session.  A held logout has passed the CSRF gate.  *)
(***************************************************************************)
AuthSuspend ==
    \E cookie \in Cookies \ {None}, op \in {"me", "logout"} :
        /\ Cardinality(pending) < MaxPending
        /\ \E g \in {get_session(kv, cookie[1], "none")} :
               /\ g.ret # None
               /\ pending' = pending \cup
                      {[gate |-> "refresh", op |-> op, cookie |-> cookie,
                        user_id |-> g.ret[1].user_id]}
        /\ last' = Request("suspended", "", "", "", cookie)
        /\ UNCHANGED <<csrf, retry, users, kv, now, nextSid, streak, passed>>

AuthResume ==
    \E p \in pending, f \in SessionSites \ {"session_get"} :
        /\ p.gate = "refresh"
        /\ \E cu \in {get_current_user_with(kv, users, now, p.cookie, p.user_id, f)} :
               \E out \in {IF p.op = "me" THEN get_me_from(cu)
                            ELSE logout_from(cu, p.cookie, f)} :
                   Answer([Request(p.op, "", "", "", p.cookie)
                              EXCEPT !.resumed = TRUE, !.site = f], out)
        /\ pending' = pending \ {p}
        /\ UNCHANGED <<csrf, retry, now, nextSid, streak, passed>>

\* Requests of any method to routed, exempt and other paths, with or without
\* a session cookie, and with the tokens a client can put in the
\* X-CSRF-Token header and the csrf_token cookie: none, the token of any
\* session, a token signed with another key, a token without a separator.
Methods == {"GET", "POST", "PUT", "PATCH", "DELETE"}
Paths == {"/auth/logout", "/auth/me", "/health", "/api/webhooks",
          "/api/webhooks/github"}
RequestTokens ==
    {None, Some(generate_csrf_token(1, "k0", "n1")), Some(<<"n1">>)}
    \cup {Some(generate_csrf_token(i, CSRF_SECRET, "n1")) : i \in {1, 2}}

HttpRequest(cookies, cookie_tokens) ==
    \E method \in Methods, path \in Paths, cookie \in cookies :
      \E cookie_token \in cookie_tokens, header_token \in RequestTokens :
        /\ \E out \in {http_request(method, path, kv, users, now, cookie,
                                     cookie_token, header_token)} :
               Answer([Request("request", "", "", "", cookie)
                          EXCEPT !.method = method, !.path = path,
                                 !.header_token = header_token,
                                 !.cookie_token = cookie_token],
                      out)
        /\ UNCHANGED <<csrf, retry, now, nextSid, pending, streak, passed>>

(***************************************************************************)
(* The CSRF token service on its own (csrf.py): csrf holds the arguments   *)
(* and results of the calls made.                                          *)
(***************************************************************************)
TokenSessions == 1..MaxTokenSessions
TokenSecrets == {"k1", "k2"}
TokenNonces == {"n1", "n2"}

\* generate_csrf_token(session_id, secret); the nonce is secrets.token_hex(16).
CsrfGenerate ==
    /\ \E sid \in TokenSessions, secret \in TokenSecrets, nonce \in TokenNonces :
           csrf' = [step |-> "generated", sid |-> sid, secret |-> secret,
                    token |-> generate_csrf_token(sid, secret, nonce)]
    /\ UNCHANGED <<users, kv, now, nextSid, pending, streak, passed, last, retry>>

\* verify_csrf_token(token, session_id, secret) on the token generated last.
CsrfVerify ==
    /\ csrf.step \in {"generated", "verified"}
    /\ \E sid \in TokenSessions, secret \in TokenSecrets :
           csrf' = [step |-> "verified", sid |-> csrf.sid, secret |-> csrf.secret,
                    token |-> csrf.token, against |-> <<sid, secret>>,
                    valid |-> verify_csrf_token(csrf.token, sid, secret)]
    /\ UNCHANGED <<users, kv, now, nextSid, pending, streak, passed, last, retry>>

\* verify_csrf_token on a token without a separator: the empty string, or a
\* nonce or a signature alone.
CsrfVerifyUnseparated ==
    /\ \E sid \in TokenSessions, secret \in TokenSecrets, nonce \in TokenNonces :
         \E token \in {<<"">>, <<nonce>>,
                        <<hmac_sha256(secret, csrf_message(sid, nonce))>>} :
           csrf' = [step |-> "unseparated", token |-> token,
                    against |-> <<sid, secret>>,
                    valid |-> verify_csrf_token(token, sid, secret)]
    /\ UNCHANGED <<users, kv, now, nextSid, pending, streak, passed, last, retry>>

\* The session manager's delete_session called on its own, for any session
\* id.  last records whether the session was there and whether the call
\* returned.
SessionDelete ==
    \E cookie \in Cookies \ {None}, f \in {"none", "session_delete"} :
        /\ \E d \in {delete_session(kv, cookie[1], f)} :
               /\ kv' = d.kv
               /\ last' = [Request("delete_session", "", "", "", cookie)
                              EXCEPT !.site = f,
                                     !.stage = IF Exists(kv, SessionKey(cookie[1]))
                                               THEN "present" ELSE "absent",
                                     !.detail = IF d.raised THEN "raised"
                                                ELSE "returned"]
        /\ UNCHANGED <<csrf, retry, users, now, nextSid, pending, streak, passed>>

\* The session manager's refresh_session called on its own, for any session
\* id.  last records whether the session was there and what the call
\* returned.
SessionRefresh ==
    \E cookie \in Cookies \ {None}, f \in {"none", "session_expire"} :
        /\ \E r \in {refresh_session(kv, cookie[1], now, f)} :
               /\ kv' = r.kv
               /\ last' = [Request("refresh_session", "", "", "", cookie)
                              EXCEPT !.site = f,
                                     !.stage = IF Exists(kv, SessionKey(cookie[1]))
                                               THEN "present" ELSE "absent",
                                     !.detail = IF r.raised THEN "raised"
                                                ELSE "returned",
                                     !.refreshed = r.ret]
        /\ UNCHANGED <<csrf, retry, users, now, nextSid, pending, streak, passed>>

\* Requests during which one store call fails faults times in a row: once (a
\* transient failure) or on every try the retry policy allows.
FaultCounts == {1, SESSION_MAX_RETRIES + 1}

LoginTransient(emails, passwords, ips) ==
    \E email \in emails, password \in passwords, ip \in ips, nonce \in Nonces,
       site \in LoginSites \ {"none"}, faults \in FaultCounts :
        /\ Hits(kv, IpKey(ip)) < MaxIpHits
        /\ Hits(kv, EmailKey(email)) < MaxEmailHits
        /\ Hits(kv, FailedKey(email)) < MaxFailed
        /\ \E out \in {login_body(kv, users, now, email, password, ip,
                                   FailingSite(site, faults), nextSid, nonce)} :
               LoginAnswer([Request("login", email, password, ip, None)
                               EXCEPT !.site = site, !.faults = faults], out)
        /\ UNCHANGED <<csrf, retry, now, pending>>

MeTransient ==
    \E cookie \in Cookies, site \in SessionSites \ {"none"}, faults \in FaultCounts :
        /\ \E out \in {get_me(kv, users, now, cookie, FailingSite(site, faults))} :
               Answer([Request("me", "", "", "", cookie)
                          EXCEPT !.site = site, !.faults = faults], out)
        /\ UNCHANGED <<csrf, retry, now, nextSid, pending, streak, passed>>

(***************************************************************************)
(* exponential_backoff_retry on its own: retry holds the loop's variables, *)
(* the number of calls made and the delays slept.                          *)
(***************************************************************************)
RetryLimits == 0..MaxRetries
InitialDelays == {DEFAULT_INITIAL_DELAY, 2 * DEFAULT_MAX_DELAY}
MaxDelays == {DEFAULT_MAX_DELAY, 2 * DEFAULT_INITIAL_DELAY}
ExponentialBases == {1, DEFAULT_EXPONENTIAL_BASE}

RetryEnter ==
    /\ retry.phase # "loop"
    /\ \E max_retries \in RetryLimits, initial_delay \in InitialDelays,
          max_delay \in MaxDelays, exponential_base \in ExponentialBases :
           retry' = retry_enter(max_retries, initial_delay, max_delay, exponential_base)
    /\ UNCHANGED <<users, kv, now, nextSid, pending, streak, passed, last, csrf>>

RetryCallReturns ==
    /\ retry.phase = "loop"
    /\ retry' = retry_returned(retry)
    /\ UNCHANGED <<users, kv, now, nextSid, pending, streak, passed, last, csrf>>

RetryCallRaises ==
    /\ retry.phase = "loop"
    /\ retry' = retry_failed(retry)
    /\ UNCHANGED <<users, kv, now, nextSid, pending, streak, passed, last, csrf>>

\* The clock advances by d, at most MaxTicks steps of d from the start.
Tick(d) ==
    /\ now + d <= MaxTicks * d
    /\ now' = now + d
    /\ kv' = Purge(kv, now + d)
    /\ streak' = [e \in Emails |->
                    IF Exists(kv, FailedKey(e)) /\ ~Exists(kv', FailedKey(e))
                    THEN 0 ELSE streak[e]]
    /\ last' = Request("tick", "", "", "", None)
    /\ passed' = [k \in GateKeys |-> IF Exists(kv', k) THEN passed[k] ELSE 0]
    /\ UNCHANGED <<csrf, retry, users, nextSid, pending>>

\* The deployed application.
Next ==
    \/ Register(Emails, Passwords)
    \/ Login
    \/ Me(SessionSites)
    \/ MeTransient
    \/ Logout(SessionSites)
    \/ Tick(IP_WINDOW_SECONDS)

Spec == Init /\ [][Next]_vars

\* Failed attempts and lockout: one account, right and wrong passwords, one
\* client address, the clock in steps of half the failure counter's lifetime
\* (a lockout of LOCKOUT_DURATION_MINUTES has elapsed after one step).
LockoutSites == {"none", "ip_incr", "locked_get", "failed_incr", "failed_expire",
                 "lock_setex", "failed_delete", "session_setex"}

NextLockout ==
    \/ Register({"a@b.com"}, {"password1"})
    \/ LoginBody({"a@b.com"}, {"password1", "password2"}, {"10.0.0.1"}, LockoutSites)
    \/ Tick(FAILED_ATTEMPTS_TTL \div 2)

SpecLockout == Init /\ [][NextLockout]_vars

\* The rate-limit gates: no account, two client addresses, one e-mail,
\* concurrent requests, the clock in steps of the IP window.
GateSites == {"none", "ip_expire", "email_expire"}

NextGate ==
    \/ LoginBody({"a@b.com"}, {"password1"}, IPs, GateSites)
    \/ GateSuspend({"a@b.com"}, {"password1"}, IPs)
    \/ GateResume
    \/ GateAbort
    \/ Tick(IP_WINDOW_SECONDS)

SpecGate == Init /\ [][NextGate]_vars

\* The session life cycle: one account that logs in with its password,
\* authenticated requests and logouts with any cookie, the account switched
\* off and on, the clock in steps of half the session lifetime.
NextSess ==
    \/ Register({"a@b.com"}, {"password1"})
    \/ LoginBody({"a@b.com"}, {"password1"}, {"10.0.0.1"}, {"none", "session_setex"})
    \/ Me(SessionSites)
    \/ Logout(SessionSites)
    \/ Deactivate
    \/ Activate
    \/ Tick(SESSION_TTL \div 2)

SpecSess == Init /\ [][NextSess]_vars

\* Sessions under concurrent requests: one account that logs in, requests
\* and logouts answered at once or held between two store calls, the clock
\* in steps of the session lifetime.
NextRace ==
    \/ Register({"a@b.com"}, {"password1"})
    \/ LoginBody({"a@b.com"}, {"password1"}, {"10.0.0.1"}, {"none"})
    \/ Me({"none"})
    \/ Logout({"none"})
    \/ AuthSuspend
    \/ AuthResume
    \/ Tick(SESSION_TTL)

SpecRace == Init /\ [][NextRace]_vars

\* The CSRF gate in front of the routes of the application as it is
\* deployed: registrations, logins, and requests of every method, path,
\* cookie and token.  The gate reads no store, so the session a cookie names
\* need not exist.
NextCsrf ==
    \/ Register({"a@b.com"}, {"password1"})
    \/ Login
    \/ HttpRequest({None, Some(1)},
                   {None, Some(generate_csrf_token(1, CSRF_SECRET, "n1")),
                    Some(<<"n1">>)})

SpecCsrf == Init /\ [][NextCsrf]_vars

\* Requests with a failing store call: one account, right and wrong
\* passwords, requests with a session cookie.
NextFault ==
    \/ Register({"a@b.com"}, {"password1"})
    \/ LoginBody({"a@b.com"}, {"password1", "password2"}, {"10.0.0.1"}, {"none"})
    \/ LoginTransient({"a@b.com"}, {"password1", "password2"}, {"10.0.0.1"})
    \/ MeTransient

SpecFault == Init /\ [][NextFault]_vars

\* The session manager on its own: sessions created by logins, deleted and
\* refreshed by direct calls, expiring with the clock.
NextStore ==
    \/ Register({"a@b.com"}, {"password1"})
    \/ LoginBody({"a@b.com"}, {"password1"}, {"10.0.0.1"}, {"none", "csrf_mint"})
    \/ SessionDelete
    \/ SessionRefresh
    \/ Tick(SESSION_TTL \div 2)

SpecStore == Init /\ [][NextStore]_vars

\* The retry loop with every limit, delay and base; a call that is made
\* returns or raises, and a sleep ends.
NextRetry ==
    \/ RetryEnter
    \/ RetryCallReturns
    \/ RetryCallRaises

SpecRetry ==
    Init /\ [][NextRetry]_vars /\ WF_vars(RetryCallReturns \/ RetryCallRaises)

\* The token service called with every session id, secret and nonce.
NextToken ==
    \/ CsrfGenerate
    \/ CsrfVerify
    \/ CsrfVerifyUnseparated

SpecToken == Init /\ [][NextToken]_vars

(***************************************************************************)
(* Claims.  Formulas over a step read the request of the step in last'     *)
(* and the stores before and after it in the unprimed and primed variables.*)
(***************************************************************************)
LoginStep == last'.op = "login"

\* The user row a login for this address resolves to.
Account(u, email) == get_user_by_email(u, email)

KvLocked(s, user_id) == Exists(s, LockKey(user_id))
DbLocked(u, user_id, t) ==
    u[user_id].locked_until # None /\ u[user_id].locked_until[1] > t
LockoutActive(s, u, user_id, t) == KvLocked(s, user_id) \/ DbLocked(u, user_id, t)

Sessions(s) == {k \in DOMAIN s : k[1] = "session"}

\* C1: register followed by login with the same credentials (no rate limit
\* exceeded, account active and unlocked) returns 200 with a session_id whose
\* stored session carries the registered user's id.  Stated of every answered
\* login whose credentials are those of a registered, active, unlocked user.
C1_RegisterThenLogin ==
    (/\ last.op = "login"
     /\ Account(users, last.email) # None
     /\ verify_password(last.password, Account(users, last.email)[1].password_hash)
     /\ Account(users, last.email)[1].is_active
     /\ ~LockoutActive(kv, users, Account(users, last.email)[1].id, now)
     /\ Hits(kv, IpKey(last.ip)) <= LOGIN_ATTEMPTS_PER_MINUTE
     /\ Hits(kv, EmailKey(last.email)) <= LOGIN_ATTEMPTS_PER_5_MIN)
    => /\ last.status = 200
       /\ last.session_id # None
       /\ get_session(kv, last.session_id[1], "none").ret # None
       /\ get_session(kv, last.session_id[1], "none").ret[1].user_id
             = Account(users, last.email)[1].id

\* The status C2 gives a login from the stores it finds: that of the first
\* failing check in the order IP gate, e-mail gate, user, KV flag, durable
\* lock, active flag, password; 200 when every check passes.
C2_Status(s, u, t, email, password, ip) ==
    IF Hits(s, IpKey(ip)) + 1 > LOGIN_ATTEMPTS_PER_MINUTE THEN 429
    ELSE IF Hits(s, EmailKey(email)) + 1 > LOGIN_ATTEMPTS_PER_5_MIN THEN 429
    ELSE IF Account(u, email) = None THEN 401
    ELSE IF KvLocked(s, Account(u, email)[1].id) THEN 403
    ELSE IF DbLocked(u, Account(u, email)[1].id, t) THEN 403
    ELSE IF ~Account(u, email)[1].is_active THEN 403
    ELSE IF ~verify_password(password, Account(u, email)[1].password_hash) THEN 401
    ELSE 200

\* C2: login evaluates its checks in the fixed order and answers with the
\* status of the first failing check: 429, 429, 401, 403, 403, 403, 401.
C2_CheckOrder ==
    [][LoginStep =>
         last'.status = C2_Status(kv, users, now, last'.email, last'.password, last'.ip)]_vars

\* C8: a login that does not authenticate is answered 401, Invalid email or
\* password, whether the address has no user record or has one and the
\* password is wrong.
C8_SameResponse ==
    (/\ last.op = "login"
     /\ \/ Account(users, last.email) = None
        \/ ~verify_password(last.password, Account(users, last.email)[1].password_hash))
    => last.status = 401 /\ last.detail = "Invalid email or password"

\* The login of the step reached the password check with a wrong password
\* and raised the e-mail's failure counter from n - 1 to n.
WrongPasswordStep(n) ==
    /\ LoginStep
    /\ last'.stage = "password"
    /\ Hits(kv, FailedKey(last'.email)) = n - 1
    /\ Hits(kv', FailedKey(last'.email)) = n

\* After the step both lock records of the account stand for the lockout
\* duration from the time of the request.
BothLocksWritten ==
    LET id == Account(users, last'.email)[1].id
        until == now + LOCKOUT_DURATION_MINUTES * 60
    IN  /\ users'[id].locked_until = Some(until)
        /\ Exists(kv', LockKey(id))
        /\ kv'[LockKey(id)].exp = Some(until)

FailureCountersUnchanged(email, id) ==
    /\ redis_get(kv', FailedKey(email)) = redis_get(kv, FailedKey(email))
    /\ users'[id].failed_login_attempts = users[id].failed_login_attempts

\* The login of the step is for an account whose lockout is active.
LockedLoginStep ==
    /\ LoginStep
    /\ Account(users, last'.email) # None
    /\ LockoutActive(kv, users, Account(users, last'.email)[1].id, now)

\* C4 as stated: while a lockout is active every login for the account is
\* rejected with 403, creates no session and leaves the failure counters
\* unchanged.
C4_Original ==
    [][LockedLoginStep
       => /\ last'.status = 403
          /\ Sessions(kv') = Sessions(kv)
          /\ FailureCountersUnchanged(last'.email,
                                      Account(users, last'.email)[1].id)]_vars

\* C4, amended: while a lockout is active every login for the account, the
\* right password included, is rejected: with 429 when it exceeds a rate-limit
\* gate, with 500 when a store call raises, with 403 otherwise; it creates no
\* session and leaves the e-mail's failure counters unchanged.
C4_LockedRejected ==
    [][LockedLoginStep
       => /\ \/ last'.status = 500
             \/ last'.status =
                   IF \/ Hits(kv, IpKey(last'.ip)) + 1 > LOGIN_ATTEMPTS_PER_MINUTE
                      \/ Hits(kv, EmailKey(last'.email)) + 1 > LOGIN_ATTEMPTS_PER_5_MIN
                   THEN 429 ELSE 403
          /\ Sessions(kv') = Sessions(kv)
          /\ FailureCountersUnchanged(last'.email,
                                      Account(users, last'.email)[1].id)]_vars

C4_Witness ==
    /\ last.op = "login" /\ last.password = "password1"
    /\ Account(users, last.email) # None
    /\ verify_password(last.password, Account(users, last.email)[1].password_hash)
    /\ LockoutActive(kv, users, Account(users, last.email)[1].id, now)
    /\ last.status = 403

\* C5: a lock record is written only by a wrong-password attempt that at least
\* 9 other wrong-password attempts for the e-mail precede since the last
\* successful login, the previous lockout or the failure counter's expiry.
C5_OnlyTenthConsecutive ==
    [][LoginStep /\ LockWritten(users, kv, users', kv')
       => streak[last'.email] >= LOGIN_LOCK_THRESHOLD - 1]_vars

\* C9: a login that returns 200 has deleted failed_attempts:{email}, set the
\* durable failed_login_attempts to 0 and locked_until to NULL, stored exactly
\* one new session, for the user's id, and issued a csrf_token that verifies
\* against that session id.
C9_SuccessfulLogin ==
    [][LoginStep /\ last'.status = 200
       => LET id == Account(users, last'.email)[1].id
              sid == last'.session_id[1]
          IN  /\ ~Exists(kv', FailedKey(last'.email))
              /\ users'[id].failed_login_attempts = 0
              /\ users'[id].locked_until = None
              /\ Sessions(kv') \ Sessions(kv) = {SessionKey(sid)}
              /\ get_session(kv', sid, "none").ret # None
              /\ get_session(kv', sid, "none").ret[1].user_id = id
              /\ verify_csrf_token(last'.csrf_token[1], sid, CSRF_SECRET)]_vars

C9_Witness ==
    /\ last.op = "login" /\ last.status = 200
    /\ now > 0
    /\ Exists(kv, SessionKey(last.session_id[1]))
    /\ users[1].locked_until = None

\* The step raised the counter k from n - 1 to n.
Counted(k, n) == Hits(kv, k) = n - 1 /\ Hits(kv', k) = n

\* C6: within one window of a rate-limit counter at most 5 requests from one
\* IP and at most 10 for one e-mail pass the gate, however concurrent requests
\* interleave, and a request counted beyond the limit is rejected with 429.
C6_GateBound ==
    /\ [](/\ \A ip \in IPs : passed[IpKey(ip)] <= LOGIN_ATTEMPTS_PER_MINUTE
          /\ \A e \in Emails : passed[EmailKey(e)] <= LOGIN_ATTEMPTS_PER_5_MIN)
    /\ [][LoginStep
          => /\ \A n \in (LOGIN_ATTEMPTS_PER_MINUTE + 1)..MaxIpHits :
                   Counted(IpKey(last'.ip), n)
                   => last'.status = 429 /\ last'.stage = "ip_gate"
             /\ \A n \in (LOGIN_ATTEMPTS_PER_5_MIN + 1)..MaxEmailHits :
                   Counted(EmailKey(last'.email), n)
                   => last'.status = 429 /\ last'.stage = "email_gate"]_vars

C6_Witness ==
    /\ last.op = "login" /\ last.stage = "email_gate" /\ last.status = 429
    /\ passed[EmailKey(last.email)] = LOGIN_ATTEMPTS_PER_5_MIN
    /\ \E ip \in IPs : passed[IpKey(ip)] = LOGIN_ATTEMPTS_PER_MINUTE

\* C7: in every reachable state an existing ratelimit:ip key carries an
\* expiry, even after a request was aborted or failed between the increment
\* and the expire call of its gate (a request still between the two calls is
\* left aside).
C7_IpKeyHasExpiry ==
    \A ip \in IPs :
        /\ Exists(kv, IpKey(ip))
        /\ ~\E p \in pending : p.gate = "ip" /\ p.ip = ip
        => kv[IpKey(ip)].exp # None

\* The request of the step carries a cookie whose session the store holds,
\* for a user that exists and is active.
C10_Conditions ==
    /\ last'.cookie # None
    /\ Exists(kv, SessionKey(last'.cookie[1]))
    /\ kv[SessionKey(last'.cookie[1])].val.user_id # 0
    /\ get_user_by_id(users, kv[SessionKey(last'.cookie[1])].val.user_id) # None
    /\ get_user_by_id(users, kv[SessionKey(last'.cookie[1])].val.user_id)[1].is_active

\* The status C10 gives a request that does not meet the conditions.
C10_Rejection ==
    IF last'.cookie = None THEN 401
    ELSE IF ~Exists(kv, SessionKey(last'.cookie[1])) THEN 401
    ELSE IF kv[SessionKey(last'.cookie[1])].val.user_id = 0 THEN 401
    ELSE IF get_user_by_id(users, kv[SessionKey(last'.cookie[1])].val.user_id) = None
    THEN 401
    ELSE 403

\* The step answers a request that goes through get_current_user (one the
\* CSRF gate passed on); the request is authenticated when the handler
\* behind it has run.
AuthStep == last'.op \in {"me", "logout"} /\ last'.stage # "csrf"

Authenticated == last'.stage \in {"me", "logout"}

\* The request is answered as C10 says of one that does not meet the
\* conditions; a session that get_session did not return (absent, or the
\* store failed to return it) is answered 401, Session expired.
C10_Rejected ==
    \/ last'.status = C10_Rejection
    \/ last'.status = 401 /\ last'.detail = "Session expired"

C12_LogoutSucceeds ==
    (last.op = "logout" /\ last.stage # "csrf")
    => /\ last.status = 200
       /\ last.detail = "Logged out successfully"
       /\ last.cookie # None => ~Exists(kv, SessionKey(last.cookie[1]))

\* A logout for session c has returned its success response.
LoggedOut(c) ==
    last.op = "logout" /\ last.status = 200 /\ last.cookie = Some(c)

\* The request last answered presented session c to get_current_user and was
\* not in flight before: it read the store when it was answered.
PresentedAnew(c) ==
    /\ last.op \in {"me", "logout"}
    /\ last.cookie = Some(c)
    /\ ~last.resumed
    /\ last.stage # "csrf"

\* C11: once a logout for a session has returned, the session stays absent
\* from the store whatever happens later (logins, refreshes, requests that
\* were in flight), and every request that presents the same session_id to
\* the authentication dependency from then on is answered 401.
C11_LoggedOutStaysOut ==
    \A c \in 1..MaxSessions :
        [](LoggedOut(c)
           => [](/\ ~Exists(kv, SessionKey(c))
                 /\ (PresentedAnew(c) /\ ~LoggedOut(c)) => last.status = 401))

\* Session 1 was logged out (the clock has not moved, so it did not expire), a
\* later login has created session 2, and a new request with session 1 was
\* answered 401.
C11_Witness ==
    /\ now = 0
    /\ nextSid > 2
    /\ ~Exists(kv, SessionKey(1))
    /\ Exists(kv, SessionKey(2))
    /\ PresentedAnew(1)
    /\ last.op = "me"
    /\ last.status = 401

\* The four conditions of C13 on the request last answered.
C13_Conditions ==
    /\ last.method \in {"POST", "PUT", "PATCH", "DELETE"}
    /\ last.cookie # None
    /\ last.path \notin {"/auth/login", "/auth/register", "/health", "/api/webhooks"}
    /\ \/ last.header_token = None
       \/ last.cookie_token = None
       \/ ~verify_csrf_token(last.header_token[1], last.cookie[1], CSRF_SECRET)

\* C13: the CSRF gate answers a request with 403 exactly when its method is
\* POST, PUT, PATCH or DELETE, it carries a session_id cookie, its path is not
\* in the allow-list, and the X-CSRF-Token header or the csrf_token cookie is
\* missing or the header token fails verification against the cookie's
\* session id and the server secret; every other request is answered by its
\* route.
C13_GateRejectsExactly ==
    last.op = "request"
    => /\ (last.stage = "csrf") <=> C13_Conditions
       /\ last.stage = "csrf" => last.status = 403
       /\ last.stage # "csrf"
          => last.stage \in {"router", "health", "cookie", "session", "payload",
                             "user", "active", "me", "logout"}

\* A DELETE below an allow-listed path (the list is matched exactly) with a
\* session cookie and, in the header, the token of another session was
\* rejected.
C13_Witness ==
    /\ last.op = "request"
    /\ last.method = "DELETE"
    /\ last.path = "/api/webhooks/github"
    /\ last.cookie = Some(1)
    /\ last.header_token = Some(generate_csrf_token(2, CSRF_SECRET, "n1"))
    /\ last.cookie_token = Some(generate_csrf_token(1, CSRF_SECRET, "n1"))
    /\ last.status = 403
    /\ last.detail = "CSRF validation failed"

\* C14: a token generated for session A under secret K verifies against A
\* and K, does not verify against any other session id or any other secret,
\* and a token without a separator is answered false (a value, no exception).
C14_TokenBoundToSessionAndSecret ==
    /\ csrf.step = "verified"
       => csrf.valid = (csrf.against = <<csrf.sid, csrf.secret>>)
    /\ csrf.step = "unseparated" => csrf.valid = FALSE

\* A token was verified against the secret it was signed with and a session
\* it was not generated for.
C14_Witness ==
    /\ csrf.step = "verified"
    /\ csrf.against[2] = csrf.secret
    /\ csrf.against[1] # csrf.sid
    /\ ~csrf.valid

\* C15: refresh_session on an existing session, its expire call answered by
\* the store, returns true, sets the session's TTL to the full lifetime and
\* changes nothing else: get_session returns the same user_id and created_at
\* before and after, and every other key keeps its value and expiry.
C15_RefreshKeepsPayload ==
    [][(/\ last'.op = "refresh_session" /\ last'.site = "none"
        /\ Exists(kv, SessionKey(last'.cookie[1])))
       => /\ last'.refreshed
          /\ last'.detail = "returned"
          /\ kv' = [kv EXCEPT ![SessionKey(last'.cookie[1])].exp =
                                   Some(now + SESSION_TTL)]
          /\ get_session(kv', last'.cookie[1], "none").ret
                = get_session(kv, last'.cookie[1], "none").ret]_vars

\* A session created at time 0 was refreshed later: it expires a full
\* lifetime from now and still carries its creation time, next to the
\* rate-limit counters of the login that created it.
C15_Witness ==
    /\ last.op = "refresh_session" /\ last.site = "none" /\ last.refreshed
    /\ now > 0
    /\ kv[SessionKey(last.cookie[1])].val.created_at = 0
    /\ kv[SessionKey(last.cookie[1])].exp = Some(now + SESSION_TTL)
    /\ \E e \in Emails : Exists(kv, EmailKey(e))

\* The session of the request answered in this step was gone from the store
\* when the request, held since its get_session, went on to refresh_session.
RefreshOfAbsent ==
    /\ last'.resumed /\ last'.site = "none"
    /\ ~Exists(kv, SessionKey(last'.cookie[1]))

\* C16: refresh_session on an absent session returns false, raises nothing
\* and leaves the session absent, also when the session was deleted or
\* expired between the request's get_session and its refresh_session; a
\* session id that was issued and is absent is never present again.
C16_NoWayBack ==
    [][/\ RefreshOfAbsent
          => /\ ~last'.refreshed
             /\ last'.status # 500
             /\ ~Exists(kv', SessionKey(last'.cookie[1]))
       /\ \A c \in 1..MaxSessions :
             (c < nextSid /\ ~Exists(kv, SessionKey(c)))
             => ~Exists(kv', SessionKey(c))]_vars

\* A GET /auth/me read its session, the session was deleted by a logout (the
\* clock has not moved), and the request then refreshed nothing.
C16_Witness ==
    /\ last.op = "me" /\ last.resumed /\ last.site = "none"
    /\ now = 0
    /\ ~last.refreshed
    /\ ~Exists(kv, SessionKey(last.cookie[1]))

\* C17: delete_session is idempotent on a store that answers: it returns
\* normally whether the session is there or not, leaves a store without the
\* session and with every other key as it was, a second delete of the same id
\* returns normally and changes nothing, and get_session finds no session
\* afterwards.
C17_DeleteIdempotent ==
    [][(last'.op = "delete_session" /\ last'.site = "none")
       => LET sid == last'.cookie[1]
              again == delete_session(kv', sid, "none")
          IN  /\ last'.detail = "returned"
              /\ kv' = redis_delete(kv, SessionKey(sid))
              /\ ~Exists(kv, SessionKey(sid)) => kv' = kv
              /\ ~again.raised
              /\ again.kv = kv'
              /\ get_session(kv', sid, "none").ret = None
              /\ get_session(again.kv, sid, "none").ret = None]_vars

\* A session that had been issued and was gone already (deleted: the clock
\* has not moved) was deleted again, and the call returned.
C17_Witness ==
    /\ last.op = "delete_session" /\ last.site = "none"
    /\ last.stage = "absent"
    /\ last.detail = "returned"
    /\ last.cookie[1] < nextSid
    /\ now = 0

\* C18: when the key-value store is unreachable during an auth operation the
\* caller receives the generic 500 response, never a 401, 403 or 200.  Stated
\* of the session lookup of an authenticated request: a request that carries
\* a session cookie while every try of the store's GET fails.
C18_OutageAnswered500 ==
    (/\ last.op = "me"
     /\ last.cookie # None
     /\ last.site = "session_get"
     /\ last.faults > SESSION_MAX_RETRIES)
    => /\ last.status = 500
       /\ last.detail = "Internal server error"

\* The answer to the request of this step had no store call failed.
Faultless ==
    IF last'.op = "login"
    THEN login_body(kv, users, now, last'.email, last'.password, last'.ip,
                    "none", nextSid, "n1")
    ELSE get_me(kv, users, now, last'.cookie, "none")

\* C20: every store call of the session manager and of the rate limiter is
\* retried, so that one transient failure of any one call made during a login
\* or an authenticated request does not fail the request: the request is
\* answered, and leaves the store and the accounts, as if no call had failed.
C20_TransientFailureRidden ==
    [][(last'.op \in {"login", "me"} /\ last'.faults = 1)
       => /\ last'.status = Faultless.status
          /\ last'.detail = Faultless.detail
          /\ kv' = Faultless.kv
          /\ users' = Faultless.users]_vars

RECURSIVE Power(_, _)
Power(b, n) == IF n = 0 THEN 1 ELSE b * Power(b, n - 1)

\* The calls and delays made so far are those C19 describes.
C19_CallsAndDelays ==
    retry.phase # "init"
    => /\ retry.calls <= retry.max_retries + 1
       /\ retry.phase = "returned" => retry.calls = Len(retry.sleeps) + 1
       /\ retry.phase = "raised"
          => /\ retry.calls = retry.max_retries + 1
             /\ Len(retry.sleeps) = retry.max_retries
       /\ \A k \in 1..Len(retry.sleeps) :
             retry.sleeps[k] =
                 Min(retry.initial_delay * Power(retry.exponential_base, k - 1),
                     retry.max_delay)

CounterKeys ==
    {IpKey(ip) : ip \in IPs} \cup {EmailKey(e) : e \in Emails}
    \cup {FailedKey(e) : e \in Emails}

\* C21: for each of the three counters (IP window, email window, failure
\* counter) an increment of a key that exists already, with its expiry set,
\* leaves the key's expiry as it was: the expiry is set by the increment that
\* creates the key and the window ends a fixed time after the first hit.
C21_LaterHitsKeepExpiry ==
    [][\A k \in CounterKeys :
          (/\ Exists(kv, k) /\ kv[k].exp # None
           /\ Exists(kv', k) /\ kv'[k].val > kv[k].val)
          => kv'[k].exp = kv[k].exp]_vars

\* C26: the CSRF gate admits a state-changing request that carries a session
\* cookie (to a path outside the allow-list) only if the X-CSRF-Token header
\* equals the csrf_token cookie and the header token carries a valid signature
\* for the session id.
C26_DoubleSubmitEquality ==
    (/\ last.op = "request"
     /\ last.method \in CSRF_METHODS
     /\ last.cookie # None
     /\ last.path \notin CSRF_EXEMPT_PATHS
     /\ last.stage # "csrf")
    => /\ last.header_token # None
       /\ verify_csrf_token(last.header_token[1], last.cookie[1], CSRF_SECRET)
       /\ last.header_token = last.cookie_token

\* C27: every login increments the IP counter of its address; a login that
\* passes the IP gate increments the e-mail counter of the submitted address,
\* whatever its outcome; a login rejected at the IP gate leaves the e-mail
\* counter as it was.
C27_EveryLoginCounted ==
    [][LoginStep
       => /\ Hits(kv', IpKey(last'.ip)) = Hits(kv, IpKey(last'.ip)) + 1
          /\ Hits(kv', EmailKey(last'.email))
                = IF Hits(kv', IpKey(last'.ip)) > LOGIN_ATTEMPTS_PER_MINUTE
                  THEN Hits(kv, EmailKey(last'.email))
                  ELSE Hits(kv, EmailKey(last'.email)) + 1]_vars

\* C29: a session record enters the store only in a login that returned 200:
\* a login that ends in 401, 403, 429 or 500, a failure after create_session
\* included, leaves no session in the store that was not there before it.
C29_SessionsOnlyFrom200 ==
    [][/\ LoginStep /\ last'.status # 200 => Sessions(kv') \subseteq Sessions(kv)
       /\ ~(Sessions(kv') \subseteq Sessions(kv)) => LoginStep]_vars

(***************************************************************************)
(* Concurrent registrations.  register awaits get_user_by_email             *)
(* (router.py:64) and then create_user (router.py:71) with no transaction   *)
(* around the two; a request whose checks have passed is held in pending    *)
(* while other requests run.                                                *)
(***************************************************************************)
RegisterSuspend(emails, passwords) ==
    \E email \in emails, password \in passwords :
        /\ Cardinality(pending) < MaxPending
        /\ register_checks(kv, users, email, password) = None
        /\ pending' = pending \cup
               {[gate |-> "insert", email |-> email, password |-> password]}
        /\ last' = Request("suspended", email, password, "", None)
        /\ UNCHANGED <<csrf, retry, users, kv, now, nextSid, streak, passed>>

RegisterResume ==
    \E p \in pending :
        /\ p.gate = "insert"
        /\ \E out \in {register_insert(kv, users, p.email, p.password)} :
               /\ Len(out.users) <= MaxUsers
               /\ Answer([Request("register", p.email, p.password, "", None)
                             EXCEPT !.resumed = TRUE], out)
        /\ pending' = pending \ {p}
        /\ UNCHANGED <<csrf, retry, now, nextSid, streak, passed>>

\* Registrations that interleave, and the logins of the deployed application.
NextRegister ==
    \/ Register(Emails, Passwords)
    \/ RegisterSuspend(Emails, Passwords)
    \/ RegisterResume
    \/ Login

SpecRegister == Init /\ [][NextRegister]_vars

\* C28: however registrations interleave, no two user records hold addresses
\* that are equal ignoring case, and a registration that is answered while a
\* record holds its address ignoring case, or whose password is shorter than
\* 8 characters, is answered 400 and creates no record.
C28_RegisterRejects400 ==
    /\ [](\A i, j \in UserIds(users) :
             Lower(users[i].email) = Lower(users[j].email) => i = j)
    /\ [][(/\ last'.op = "register"
           /\ \/ get_user_by_email(users, last'.email) # None
              \/ Len(last'.password) < MIN_PASSWORD_LENGTH)
          => last'.status = 400 /\ users' = users]_vars

\* Wrong passwords for one account within one minute, its address submitted
\* in either letter case from either client address; no login of this
\* specification succeeds.
NextCase ==
    \/ Register({"a@b.com"}, {"password1"})
    \/ LoginBody({"a@b.com", "A@b.com"}, {"password2"}, IPs, {"none"})

SpecCase == Init /\ [][NextCase]_vars

\* The wrong-password attempts against the user record id that raised a failure
\* counter since the record's last lockout or the counter's expiry, the
\* addresses submitted in any letter case taken together.
RECURSIVE SumStreak(_)
SumStreak(es) ==
    IF es = {} THEN 0
    ELSE LET e == CHOOSE x \in es : TRUE
         IN  streak[e] + SumStreak(es \ {e})

AccountStreak(id) == SumStreak({e \in Emails : Lower(e) = users[id].email})

\* C30: lockout acts per account: 10 wrong-password attempts against one user
\* record with no successful login between them lock the account, in whatever
\* letter case the address was submitted.
C30_LockoutPerAccount ==
    \A id \in UserIds(users) :
        AccountStreak(id) >= LOGIN_LOCK_THRESHOLD
        => users[id].locked_until # None

(***************************************************************************)
(* One account and every check of login: logins with the right and a wrong  *)
(* password before and after the registration, the account switched off and *)
(* on, the KV lockout flag removed by unlock_account, the clock in steps of *)
(* the IP window and of half the failure counter's lifetime.  The store     *)
(* answers every call.                                                      *)
(***************************************************************************)
Unlock ==
    \E user_id \in UserIds(users) :
        /\ Exists(kv, LockKey(user_id))
        /\ kv' = unlock_account(kv, user_id)
        /\ last' = Request("unlock_account", "", "", "", None)
        /\ UNCHANGED <<csrf, retry, users, now, nextSid, pending, streak, passed>>

NextAccount ==
    \/ Register({"a@b.com"}, {"password1"})
    \/ LoginBody({"a@b.com"}, {"password1", "password2"}, {"10.0.0.1"}, {"none"})
    \/ Deactivate
    \/ Activate
    \/ Unlock
    \/ Tick(IP_WINDOW_SECONDS)
    \/ Tick(FAILED_ATTEMPTS_TTL \div 2)

SpecAccount == Init /\ [][NextAccount]_vars

\* The login (email, ip) is rejected before its password is verified: at the
\* IP gate, at the e-mail gate, for want of a user record, by the KV lockout
\* flag, by the durable lockout or by the inactive flag.
RejectedBeforePassword(s, u, t, email, ip) ==
    \/ Hits(s, IpKey(ip)) + 1 > LOGIN_ATTEMPTS_PER_MINUTE
    \/ Hits(s, EmailKey(email)) + 1 > LOGIN_ATTEMPTS_PER_5_MIN
    \/ Account(u, email) = None
    \/ LockoutActive(s, u, Account(u, email)[1].id, t)
    \/ ~Account(u, email)[1].is_active

\* The step leaves every failure counter, with its expiry, and both lock
\* records of every account as they were.
FailuresAndLocksUnchanged ==
    /\ users' = users
    /\ \A k \in {FailedKey(e) : e \in Emails} \cup {LockKey(i) : i \in UserIds(users)} :
          /\ Exists(kv', k) <=> Exists(kv, k)
          /\ Exists(kv, k) => kv'[k] = kv[k]

\* C22: a login raises a failure counter only when its password does not
\* verify, and then that of the submitted address; a login rejected at the IP
\* gate, at the e-mail gate, for an unknown address, by the KV lockout flag, by
\* the durable lockout or by the inactive flag leaves the failure counters and
\* both lock records unchanged.
C22_OnlyWrongPasswordCounts ==
    [][LoginStep
       => /\ RejectedBeforePassword(kv, users, now, last'.email, last'.ip)
             => FailuresAndLocksUnchanged
          /\ \A e \in Emails :
                Hits(kv', FailedKey(e)) > Hits(kv, FailedKey(e))
                => /\ e = last'.email
                   /\ Account(users, e) # None
                   /\ ~verify_password(last'.password,
                                       Account(users, e)[1].password_hash)]_vars

\* A login for the account switched off was rejected for that, with a wrong
\* password, while the failure counter of its address stood at 3.
C22_Witness ==
    /\ last.op = "login" /\ last.stage = "active" /\ last.status = 403
    /\ last.password = "password2"
    /\ Hits(kv, FailedKey(last.email)) = 3

\* The three counters of one address: logins with the right and a wrong
\* password, the store answering every call or raising in create_session, the
\* clock in steps of half the failure counter's lifetime.
NextCounters ==
    \/ Register({"a@b.com"}, {"password1"})
    \/ LoginBody({"a@b.com"}, {"password1", "password2"}, {"10.0.0.1"},
                 {"none", "session_setex"})
    \/ Tick(FAILED_ATTEMPTS_TTL \div 2)

SpecCounters == Init /\ [][NextCounters]_vars

\* The step keeps the value of counter k, raises it by exactly 1, or removes
\* the key.
KeptRaisedOrGone(k) ==
    \/ ~Exists(kv', k)
    \/ Hits(kv', k) = Hits(kv, k)
    \/ Hits(kv', k) = Hits(kv, k) + 1

\* The step removes counter k, which it found.
Gone(k) == Exists(kv, k) /\ ~Exists(kv', k)

\* The step is the clock's, and k's expiry is reached in it.
TtlExpiry(k) == last'.op = "tick" /\ now' > now /\ Expired(kv, k, now')

UnflaggedLoginStep ==
    /\ LoginStep
    /\ Hits(kv, IpKey(last'.ip)) + 1 <= LOGIN_ATTEMPTS_PER_MINUTE
    /\ Hits(kv, EmailKey(last'.email)) + 1 <= LOGIN_ATTEMPTS_PER_5_MIN
    /\ Account(users, last'.email) # None
    /\ ~KvLocked(kv, Account(users, last'.email)[1].id)

\* C24: the durable locked_until is the fallback of the KV flag.  The store
\* answering, a login that finds no KV flag for its account (removed by
\* unlock_account, expired, or never written) but a locked_until later than now
\* is rejected with 403, Account locked, whatever its password, and changes
\* neither store's lock records; a locked_until that is not later than now
\* does not block: the login goes on to the active flag and the password, and
\* with the right password for an active account it is answered 200.
C24_DurableLockIsFallback ==
    [][UnflaggedLoginStep
       => LET user == Account(users, last'.email)[1]
          IN  /\ DbLocked(users, user.id, now)
                 => /\ last'.status = 403 /\ last'.detail = "Account locked"
                    /\ users' = users
                    /\ Sessions(kv') = Sessions(kv)
              /\ (user.locked_until # None /\ ~DbLocked(users, user.id, now))
                 => /\ last'.stage \notin {"kv_lock", "db_lock"}
                    /\ (/\ user.is_active
                        /\ verify_password(last'.password, user.password_hash))
                       => last'.status = 200]_vars

\* A login with the right password was rejected by the durable lockout, the
\* KV flag of the account being absent.
C24_Witness ==
    /\ last.op = "login" /\ last.stage = "db_lock" /\ last.status = 403
    /\ last.password = "password1"
    /\ ~KvLocked(kv, 1)
    /\ DbLocked(users, 1, now)

\* The lockout of the account has run out: a locked_until is recorded and it
\* is not later than t, so 15 minutes have passed since the last lockout was
\* written.
LockoutRanOut(u, user_id, t) ==
    u[user_id].locked_until # None /\ u[user_id].locked_until[1] <= t

\* C25: once 15 minutes have passed since the last lockout of an account was
\* written, the KV flag has expired with the locked_until, and a login for the
\* active account with the right password that passes both rate-limit gates is
\* answered 200 with no unlock in between, whatever the failure counter holds.
C25_LockoutRunsOut ==
    /\ [](\A id \in UserIds(users) :
             LockoutRanOut(users, id, now) => ~KvLocked(kv, id))
    /\ [][(/\ LoginStep
           /\ Hits(kv, IpKey(last'.ip)) + 1 <= LOGIN_ATTEMPTS_PER_MINUTE
           /\ Hits(kv, EmailKey(last'.email)) + 1 <= LOGIN_ATTEMPTS_PER_5_MIN
           /\ Account(users, last'.email) # None
           /\ LockoutRanOut(users, Account(users, last'.email)[1].id, now)
           /\ Account(users, last'.email)[1].is_active
           /\ verify_password(last'.password,
                              Account(users, last'.email)[1].password_hash))
          => /\ last'.status = 200
             /\ ~Exists(kv', FailedKey(last'.email))
             /\ users'[Account(users, last'.email)[1].id].locked_until = None]_vars

\* The clock has passed the locked_until of the account, which 10 wrong
\* passwords had locked: the flag is gone and the failure counter still holds
\* the threshold.
C25_Witness ==
    /\ last.op = "tick"
    /\ Len(users) = 1 /\ LockoutRanOut(users, 1, now) /\ users[1].is_active
    /\ ~KvLocked(kv, 1)
    /\ Hits(kv, FailedKey("a@b.com")) >= LOGIN_LOCK_THRESHOLD

====
